---- MODULE Spec2Model ----
(***************************************************************************)
(* Collaboration graph builders of the SNA project.                        *)
(*                                                                         *)
(* The model covers the three graph builders                               *)
(*   create_individual_network  (src/Final/1.py, src/N.py, Final/main.py)  *)
(*   find_shared_connections    (src/Final/1.py, src/N.py)                 *)
(*   create_combined_network    (src/Final/main.py)                        *)
(* over the networkx Graph operations they use (add_node, add_edge,        *)
(* has_node, has_edge, neighbors).  A node is its name; of the node        *)
(* attributes only the kind (node_type / group) is kept, the display       *)
(* attributes title and size are left out.  A coauthor dictionary is       *)
(* modelled by its "name" entry, the only entry the builders read.         *)
(***************************************************************************)
EXTENDS Naturals, Sequences, FiniteSets

\* Bounds of the model.
MaxProfiles == 3
MaxCoauthors == 2

\* The names a fetched profile may carry.
ProfNames == {"a", "b", "c"}

\* The names a coauthor entry may carry: every professor's name, so that a
\* professor can be someone's coauthor (or its own), and a name no profile has.
CoauthorNames == ProfNames \cup {"x"}

Names == ProfNames \cup CoauthorNames

VARIABLES
    profiles,     \* the list main() builds: one profile or None per scholar id
    pc,           \* position of the driver
    idx,          \* index of the next profile of the individual-network loop
    G,            \* value returned by the last create_individual_network call
    shared_G,     \* value returned by find_shared_connections(profiles)
    combined_G,   \* value returned by create_combined_network(profiles)
    perm,         \* the reordering applied to profiles for the second run
    perm_G,       \* find_shared_connections on the reordered list
    script,       \* the script whose run is followed ("" when none is)
    n_ids,        \* length of the script's list of scholar ids / urls
    attempts,     \* outcome of every fetch made so far, in order
    events,       \* what has been done with the current graph, in order
    report,       \* what the last analyze_network_statistics call produced
    data,         \* the rows collected so far (data / professor_data)
    file          \* the CSV file the script writes

\* The variables of the builders and those of a script's run.
buildVars == <<profiles, pc, idx, G, shared_G, combined_G, perm, perm_G>>

runVars == <<script, n_ids, attempts, events, report, data, file>>

vars == <<buildVars, runVars>>

----------------------------------------------------------------------------
\* Profiles

\* The None a failed extract_scholar_profile returns.
None == [some |-> FALSE, name |-> "", coauthors |-> <<>>]

\* The dictionary a successful extract_scholar_profile returns.
Profile(n, cs) == [some |-> TRUE, name |-> n, coauthors |-> cs]

SeqsUpTo(S, k) == UNION {[1..m -> S] : m \in 0..k}

Profiles ==
    {None} \cup {Profile(n, cs) : n \in ProfNames, cs \in SeqsUpTo(CoauthorNames, MaxCoauthors)}

Range(s) == {s[k] : k \in 1..Len(s)}

----------------------------------------------------------------------------
\* networkx.Graph

\* Kind of a node that was only ever created by add_edge (no attribute set).
NoType == "none"

\* An edge with no attribute set.
NoAttr == [has_weight |-> FALSE, weight |-> 0, has_shared |-> FALSE, shared |-> <<>>]

\* nx.Graph(): nodes in insertion order, kinds, undirected edges {u, v}
\* (a self-loop is the singleton {u}) and the attributes of each edge.
EmptyGraph ==
    [is_none   |-> FALSE,
     nodes     |-> {},
     order     |-> <<>>,
     node_type |-> [n \in {} |-> NoType],
     edges     |-> {},
     attr      |-> [e \in {} |-> NoAttr]]

\* The value of "return None" in place of a graph.
NoneGraph == [EmptyGraph EXCEPT !.is_none = TRUE]

has_node(g, n) == n \in g.nodes

has_edge(g, u, v) == {u, v} \in g.edges

\* G.add_node(n, node_type=kind): creates the node, or overwrites the kind of
\* an existing one.
add_node(g, n, kind) ==
    [g EXCEPT !.nodes = @ \cup {n},
              !.order = IF n \in g.nodes THEN @ ELSE Append(@, n),
              !.node_type = [m \in g.nodes \cup {n} |->
                                IF m = n THEN kind ELSE g.node_type[m]]]

\* The node creation inside add_edge: an endpoint that is missing is created
\* with no attribute, an existing one is left as it is.
touch_node(g, n) == IF n \in g.nodes THEN g ELSE add_node(g, n, NoType)

\* G.add_edge(u, v, **a): has_a says whether weight and shared_coauthors are
\* passed.  Attributes of an existing edge that are not passed are kept.
add_edge_with(g, u, v, has_a, w, sh) ==
    LET g1 == touch_node(touch_node(g, u), v)
        e  == {u, v}
        old == IF e \in g.edges THEN g.attr[e] ELSE NoAttr
        new == IF has_a
               THEN [has_weight |-> TRUE, weight |-> w, has_shared |-> TRUE, shared |-> sh]
               ELSE old
    IN  [g1 EXCEPT !.edges = @ \cup {e},
                   !.attr = [x \in g.edges \cup {e} |-> IF x = e THEN new ELSE g.attr[x]]]

\* G.add_edge(u, v)
add_edge(g, u, v) == add_edge_with(g, u, v, FALSE, 0, <<>>)

\* G.neighbors(n)
neighbors(g, n) == {m \in g.nodes : {n, m} \in g.edges}

\* G.degree(n): a self-loop counts twice.
degree(g, n) == Cardinality(neighbors(g, n) \ {n}) + (IF {n} \in g.edges THEN 2 ELSE 0)

----------------------------------------------------------------------------
\* create_individual_network

\* The loop over profile["coauthors"], from position k on.
RECURSIVE individual_loop(_, _, _, _)
individual_loop(g, prof_name, coauthors, k) ==
    IF k > Len(coauthors) THEN g
    ELSE LET coauthor_name == coauthors[k]
             g1 == add_node(g, coauthor_name, "coauthor")
             g2 == add_edge(g1, prof_name, coauthor_name)
         IN  individual_loop(g2, prof_name, coauthors, k + 1)

\* Variant: an empty graph, not None, for a missing profile.
create_individual_network_empty(profile) ==
    IF ~profile.some THEN EmptyGraph
    ELSE individual_loop(add_node(EmptyGraph, profile.name, "professor"),
                         profile.name, profile.coauthors, 1)

\* Variant: the professor node is not added before the loop.
create_individual_network_noprof(profile) ==
    IF ~profile.some THEN NoneGraph
    ELSE individual_loop(EmptyGraph, profile.name, profile.coauthors, 1)

create_individual_network(profile) ==
    IF ~profile.some THEN NoneGraph
    ELSE individual_loop(add_node(EmptyGraph, profile.name, "professor"),
                         profile.name, profile.coauthors, 1)

----------------------------------------------------------------------------
\* Python containers

\* An insertion-ordered dict: assigning to a key that is present keeps the
\* key's position and replaces its value.
EmptyDict == [keys |-> <<>>, val |-> [k \in {} |-> {}]]

dict_set(d, k, v) ==
    [keys |-> IF k \in Range(d.keys) THEN d.keys ELSE Append(d.keys, k),
     val  |-> [x \in Range(d.keys) \cup {k} |-> IF x = k THEN v ELSE d.val[x]]]

\* list(s) of a set s: the elements once each, in the set's iteration order.
RECURSIVE list_of(_)
list_of(s) ==
    IF s = {} THEN <<>>
    ELSE LET x == CHOOSE y \in s : TRUE IN <<x>> \o list_of(s \ {x})

----------------------------------------------------------------------------
\* find_shared_connections

\* First loop: prof_coauthors and the professor nodes, from profile k on.
\* Returns the graph and the dictionary.
RECURSIVE collect_loop(_, _, _, _)
collect_loop(g, prof_coauthors, ps, k) ==
    IF k > Len(ps) THEN [g |-> g, prof_coauthors |-> prof_coauthors]
    ELSE IF ~ps[k].some THEN collect_loop(g, prof_coauthors, ps, k + 1)
    ELSE LET prof_name == ps[k].name
             coauthors == Range(ps[k].coauthors)
         IN  collect_loop(add_node(g, prof_name, "professor"),
                          dict_set(prof_coauthors, prof_name, coauthors), ps, k + 1)

\* "for coauthor in shared": the node of a shared coauthor and its two edges.
\* The three calls touch only the coauthor's node and its edges to prof1 and
\* prof2, so the order in which the set is walked does not show in the result.
RECURSIVE shared_loop(_, _, _, _)
shared_loop(g, prof1, prof2, todo) ==
    IF todo = {} THEN g
    ELSE LET coauthor == CHOOSE c \in todo : TRUE
             g1 == add_node(g, coauthor, "shared_coauthor")
             g2 == add_edge(g1, prof1, coauthor)
             g3 == add_edge(g2, prof2, coauthor)
         IN  shared_loop(g3, prof1, prof2, todo \ {coauthor})

\* Variant: the professor-professor edge always gets weight 1.
shared_pair_weight1(g, d, prof1, prof2) ==
    LET shared == d.val[prof1] \cap d.val[prof2]
    IN  IF shared = {} THEN g
        ELSE shared_loop(add_edge_with(g, prof1, prof2, TRUE, 1, list_of(shared)),
                         prof1, prof2, shared)

\* Variant: the professor-professor edge is added without attributes.
shared_pair_noattr(g, d, prof1, prof2) ==
    LET shared == d.val[prof1] \cap d.val[prof2]
    IN  IF shared = {} THEN g
        ELSE shared_loop(add_edge(g, prof1, prof2), prof1, prof2, shared)

\* Body of the loop over combinations(prof_coauthors.items(), 2).
shared_pair(g, d, prof1, prof2) ==
    LET shared == d.val[prof1] \cap d.val[prof2]
    IN  IF shared = {} THEN g
        ELSE shared_loop(add_edge_with(g, prof1, prof2, TRUE,
                                       Cardinality(shared), list_of(shared)),
                         prof1, prof2, shared)

\* Variant: only neighbouring entries of the dictionary are paired.
RECURSIVE pairs_adjacent(_, _, _, _)
pairs_adjacent(g, d, i, j) ==
    IF i >= Len(d.keys) THEN g
    ELSE pairs_adjacent(shared_pair(g, d, d.keys[i], d.keys[i + 1]), d, i + 1, i + 2)

\* combinations(items, 2): the pairs (i, j), i < j, in lexicographic order of
\* the positions in the dictionary.
RECURSIVE pairs_loop(_, _, _, _)
pairs_loop(g, d, i, j) ==
    IF i >= Len(d.keys) THEN g
    ELSE IF j > Len(d.keys) THEN pairs_loop(g, d, i + 1, i + 2)
    ELSE pairs_loop(shared_pair(g, d, d.keys[i], d.keys[j]), d, i, j + 1)

find_shared_connections(ps) ==
    LET c == collect_loop(EmptyGraph, EmptyDict, ps, 1)
    IN  pairs_loop(c.g, c.prof_coauthors, 1, 2)

----------------------------------------------------------------------------
\* create_combined_network

\* Variant: the edge is added only together with a new coauthor node.
RECURSIVE combined_coauthors_newonly(_, _, _, _)
combined_coauthors_newonly(g, prof_name, coauthors, k) ==
    IF k > Len(coauthors) THEN g
    ELSE LET coauthor_name == coauthors[k]
             g1 == IF ~has_node(g, coauthor_name)
                   THEN add_edge(add_node(g, coauthor_name, "coauthor"),
                                 prof_name, coauthor_name)
                   ELSE g
         IN  combined_coauthors_newonly(g1, prof_name, coauthors, k + 1)

\* Inner loop of the first pass: the coauthors of one professor, from k on.
RECURSIVE combined_coauthors(_, _, _, _)
combined_coauthors(g, prof_name, coauthors, k) ==
    IF k > Len(coauthors) THEN g
    ELSE LET coauthor_name == coauthors[k]
             g1 == IF ~has_node(g, coauthor_name)
                   THEN add_node(g, coauthor_name, "coauthor")
                   ELSE g
         IN  combined_coauthors(add_edge(g1, prof_name, coauthor_name),
                                prof_name, coauthors, k + 1)

\* First pass: every professor with its coauthors, from profile k on.
RECURSIVE combined_profiles(_, _, _)
combined_profiles(g, ps, k) ==
    IF k > Len(ps) THEN g
    ELSE IF ~ps[k].some THEN combined_profiles(g, ps, k + 1)
    ELSE combined_profiles(
             combined_coauthors(add_node(g, ps[k].name, "professor"),
                                ps[k].name, ps[k].coauthors, 1),
             ps, k + 1)

\* One professor pair of a shared coauthor: raise the weight of an existing
\* edge (an edge without weight counts as 1) or create the edge with weight 1.
combined_pair(g, node, prof1, prof2) ==
    LET e == {prof1, prof2}
    IN  IF has_edge(g, prof1, prof2)
        THEN LET a == g.attr[e]
                 w == (IF a.has_weight THEN a.weight ELSE 1) + 1
                 s == IF a.has_shared THEN Append(a.shared, node) ELSE <<node>>
             IN  [g EXCEPT !.attr[e] = [has_weight |-> TRUE, weight |-> w,
                                        has_shared |-> TRUE, shared |-> s]]
        ELSE add_edge_with(g, prof1, prof2, TRUE, 1, <<node>>)

\* combinations(professors, 2) for one shared coauthor.  Each pair touches
\* only its own edge, so the order of the pairs does not show in the result.
RECURSIVE combined_pairs(_, _, _)
combined_pairs(g, node, todo) ==
    IF todo = {} THEN g
    ELSE LET e == CHOOSE x \in todo : TRUE
             prof1 == CHOOSE p \in e : TRUE
             prof2 == CHOOSE p \in e : p # prof1
         IN  combined_pairs(combined_pair(g, node, prof1, prof2), node, todo \ {e})

\* Variant: a coauthor is reclassified only from three professors on.
RECURSIVE reclassify_loop_three(_, _)
reclassify_loop_three(g, k) ==
    IF k > Len(g.order) THEN g
    ELSE LET node == g.order[k]
             professors == {n \in neighbors(g, node) : g.node_type[n] = "professor"}
         IN  IF g.node_type[node] = "coauthor" /\ Cardinality(professors) > 2
             THEN reclassify_loop_three(
                      combined_pairs(
                          [g EXCEPT !.node_type[node] = "shared_coauthor"],
                          node,
                          {{p, q} : p \in professors, q \in professors} \
                              {{p} : p \in professors}),
                      k + 1)
             ELSE reclassify_loop_three(g, k + 1)

\* Second pass: "for node in G.nodes()", from position k of the node order on.
RECURSIVE reclassify_loop(_, _)
reclassify_loop(g, k) ==
    IF k > Len(g.order) THEN g
    ELSE LET node == g.order[k]
             professors == {n \in neighbors(g, node) : g.node_type[n] = "professor"}
         IN  IF g.node_type[node] = "coauthor" /\ Cardinality(professors) > 1
             THEN reclassify_loop(
                      combined_pairs(
                          [g EXCEPT !.node_type[node] = "shared_coauthor"],
                          node,
                          {{p, q} : p \in professors, q \in professors} \
                              {{p} : p \in professors}),
                      k + 1)
             ELSE reclassify_loop(g, k + 1)

create_combined_network(ps) ==
    reclassify_loop(combined_profiles(EmptyGraph, ps, 1), 1)

----------------------------------------------------------------------------
\* print_shared_connections (src/Final/1.py, src/N.py)

\* The loop reads G.nodes[..]['node_type'] at both ends of every edge and
\* G[prof1][prof2]['shared_coauthors'] on every edge whose two ends have kind
\* professor: a KeyError when an end has no kind or such an edge no such entry.
print_shared_connections(g) ==
    IF \E e \in g.edges :
           \/ \E n \in e : g.node_type[n] = NoType
           \/ /\ \A n \in e : g.node_type[n] = "professor"
              /\ ~g.attr[e].has_shared
    THEN "KeyError"
    ELSE "ok"

----------------------------------------------------------------------------
\* The driver

\* The reorderings of a list of n entries.
Permutations(n) == {f \in [1..n -> 1..n] : \A a, b \in 1..n : a # b => f[a] # f[b]}

Permuted(ps, f) == [k \in 1..Len(ps) |-> ps[f[k]]]

Identity(n) == [k \in 1..n |-> k]

\* Nothing analysed, nothing collected, no file written.
NoReport == [called |-> FALSE, converged |-> TRUE, raised |-> FALSE,
             warning |-> FALSE, eigenvector |-> "none", nodes |-> {}]

NoFile == [written |-> FALSE, header |-> <<>>, rows |-> <<>>]

\* No script run is followed: the builders are exercised on their own.
NoRun ==
    /\ script = ""
    /\ n_ids = 0
    /\ attempts = <<>>
    /\ events = <<>>
    /\ report = NoReport
    /\ data = <<>>
    /\ file = NoFile

\* profiles = [extract_scholar_profile(id) for id in scholar_ids]: every
\* fetch gives a profile or None.
Init ==
    /\ profiles \in SeqsUpTo(Profiles, MaxProfiles)
    /\ pc = "individual"
    /\ idx = 1
    /\ G = NoneGraph
    /\ shared_G = NoneGraph
    /\ combined_G = NoneGraph
    /\ perm = Identity(Len(profiles))
    /\ perm_G = NoneGraph
    /\ NoRun

\* One call of create_individual_network on the next entry of the list.  The
\* call is made for every entry, an absent one included: main() itself tests
\* "if profile" before the call, the builder tests it again on entry.
CreateIndividualNetwork ==
    /\ pc = "individual"
    /\ idx <= Len(profiles)
    /\ G' = create_individual_network(profiles[idx])
    /\ idx' = idx + 1
    /\ UNCHANGED <<profiles, pc, shared_G, combined_G, perm, perm_G>>
    /\ UNCHANGED runVars

\* The loop is over; the list goes to the builders of the joint graphs.
EndIndividual ==
    /\ pc = "individual"
    /\ idx > Len(profiles)
    /\ pc' = "shared"
    /\ UNCHANGED <<profiles, idx, G, shared_G, combined_G, perm, perm_G>>
    /\ UNCHANGED runVars

FindSharedConnections ==
    /\ pc = "shared"
    /\ shared_G' = find_shared_connections(profiles)
    /\ pc' = "combined"
    /\ UNCHANGED <<profiles, idx, G, combined_G, perm, perm_G>>
    /\ UNCHANGED runVars

CreateCombinedNetwork ==
    /\ pc = "combined"
    /\ combined_G' = create_combined_network(profiles)
    /\ pc' = "rerun"
    /\ UNCHANGED <<profiles, idx, G, shared_G, perm, perm_G>>
    /\ UNCHANGED runVars

\* find_shared_connections again, on the same records in another order.
FindSharedConnectionsReordered ==
    /\ pc = "rerun"
    /\ \E f \in Permutations(Len(profiles)) :
          /\ perm' = f
          /\ perm_G' = find_shared_connections(Permuted(profiles, f))
    /\ pc' = "done"
    /\ UNCHANGED <<profiles, idx, G, shared_G, combined_G>>
    /\ UNCHANGED runVars

Next ==
    \/ CreateIndividualNetwork
    \/ EndIndividual
    \/ FindSharedConnections
    \/ CreateCombinedNetwork
    \/ FindSharedConnectionsReordered

Spec == Init /\ [][Next]_vars

----------------------------------------------------------------------------
\* The scripts, run from their first fetch to their last statement

\* Bound on the number of scholar ids / urls of a run.
MaxIds == 3

GraphScripts == {"Final/1.py", "N.py", "Final/main.py"}

Scripts == GraphScripts \cup {"S_NIT.py", "main.py"}

\* What a successful fetch of a run may return.
RunNames == {"a", "b"}

RunProfiles == {Profile(n, cs) : n \in RunNames, cs \in SeqsUpTo({"a", "x"}, 1)}

\* extract_scholar_profile: the dictionary, or None when the fetch raised.
extract_scholar_profile(ok, p) == IF ok THEN p ELSE None

\* One entry of the log of a graph: which graph (the position of its profile,
\* 0 for the joint graph), what was done, and the graph as that step left it.
Event(k, step, g) == [graph |-> k, step |-> step, g |-> g]

RECURSIVE log_steps(_, _, _, _)
log_steps(log, k, steps, g) ==
    IF steps = <<>> THEN log
    ELSE log_steps(Append(log, Event(k, Head(steps), g)), k, Tail(steps), g)

\* Variant: the statistics step relabels the professor node.
analyze_network_statistics_relabel(g, professor_name, converges) ==
    [G      |-> add_node(g, professor_name, "analysed"),
     steps  |-> <<"stats", "rendered">>,
     report |-> [called      |-> TRUE,
                 converged   |-> converges,
                 raised      |-> FALSE,
                 warning     |-> ~converges,
                 eigenvector |-> IF converges THEN "computed" ELSE "zeros",
                 nodes       |-> g.nodes]]

\* analyze_network_statistics of src/Final/1.py: the eigenvector computation
\* is inside try/except; on any exception the warning is printed and every
\* node gets 0.  The statistics go to a CSV file and the graph is rendered
\* once more, sized by centrality.  G is only read.
analyze_network_statistics(g, professor_name, converges) ==
    [G      |-> g,
     steps  |-> <<"stats", "rendered">>,
     report |-> [called      |-> TRUE,
                 converged   |-> converges,
                 raised      |-> FALSE,
                 warning     |-> ~converges,
                 eigenvector |-> IF converges THEN "computed" ELSE "zeros",
                 nodes       |-> g.nodes]]

\* analyze_network_statistics of src/N.py: the eigenvector computation is a
\* plain call, so its exception leaves the function; nothing is reported.
analyze_network_statistics_N(g, professor_name, converges) ==
    [G      |-> g,
     steps  |-> <<"stats">>,
     report |-> [called      |-> TRUE,
                 converged   |-> converges,
                 raised      |-> ~converges,
                 warning     |-> FALSE,
                 eigenvector |-> IF converges THEN "computed" ELSE "none",
                 nodes       |-> IF converges THEN g.nodes ELSE {}]]

\* print_shared_connections of src/Final/main.py: the kind is read with
\* .get('group') and shared_coauthors only when present, so it cannot fail.
print_shared_connections_combined(g) == "ok"

\* A run starts with nothing fetched.
RunInit ==
    /\ script \in Scripts
    /\ n_ids \in 0..MaxIds
    /\ profiles = <<>>
    /\ pc = "fetch"
    /\ idx = 1
    /\ G = NoneGraph
    /\ shared_G = NoneGraph
    /\ combined_G = NoneGraph
    /\ perm = <<>>
    /\ perm_G = NoneGraph
    /\ attempts = <<>>
    /\ events = <<>>
    /\ report = NoReport
    /\ data = IF script = "S_NIT.py" THEN EmptyDict ELSE <<>>
    /\ file = NoFile

\* profiles = [extract_scholar_profile(id) for id in scholar_ids], one id.
RunFetch ==
    /\ pc = "fetch"
    /\ script \in GraphScripts
    /\ Len(attempts) < n_ids
    /\ \E ok \in BOOLEAN : \E p \in RunProfiles :
          /\ profiles' = Append(profiles, extract_scholar_profile(ok, p))
          /\ attempts' = Append(attempts, IF ok THEN "ok" ELSE "failed")
    /\ UNCHANGED <<pc, idx, G, shared_G, combined_G, perm, perm_G>>
    /\ UNCHANGED <<script, n_ids, events, report, data, file>>

RunFetchDone ==
    /\ pc = "fetch"
    /\ script \in GraphScripts
    /\ Len(attempts) = n_ids
    /\ pc' = "loop"
    /\ UNCHANGED <<profiles, idx, G, shared_G, combined_G, perm, perm_G>>
    /\ UNCHANGED runVars

\* "for profile in profiles: if profile:" on an absent profile.
RunSkip ==
    /\ pc = "loop"
    /\ idx <= Len(profiles)
    /\ ~profiles[idx].some
    /\ idx' = idx + 1
    /\ UNCHANGED <<profiles, pc, G, shared_G, combined_G, perm, perm_G>>
    /\ UNCHANGED runVars

\* G = create_individual_network(profile)
RunBuild ==
    /\ pc = "loop"
    /\ idx <= Len(profiles)
    /\ profiles[idx].some
    /\ G' = create_individual_network(profiles[idx])
    /\ events' = Append(events, Event(idx, "built", G'))
    /\ pc' = "render"
    /\ UNCHANGED <<profiles, idx, shared_G, combined_G, perm, perm_G>>
    /\ UNCHANGED <<script, n_ids, attempts, report, data, file>>

\* visualize_individual_network(G, name): G is only read.  Final/main.py has
\* no statistics step.
RunRender ==
    /\ pc = "render"
    /\ events' = Append(events, Event(idx, "rendered", G))
    /\ pc' = IF script = "Final/main.py" THEN "next" ELSE "stats"
    /\ UNCHANGED <<profiles, idx, G, shared_G, combined_G, perm, perm_G>>
    /\ UNCHANGED <<script, n_ids, attempts, report, data, file>>

\* analyze_network_statistics(G, name); an exception that leaves it ends the
\* run, main() having no handler.
RunStats ==
    /\ pc = "stats"
    /\ \E converges \in BOOLEAN :
          LET r == IF script = "N.py"
                   THEN analyze_network_statistics_N(G, profiles[idx].name, converges)
                   ELSE analyze_network_statistics(G, profiles[idx].name, converges)
          IN  /\ G' = r.G
              /\ report' = r.report
              /\ events' = log_steps(events, idx, r.steps, r.G)
              /\ pc' = IF r.report.raised THEN "aborted_stats" ELSE "next"
    /\ UNCHANGED <<profiles, idx, shared_G, combined_G, perm, perm_G>>
    /\ UNCHANGED <<script, n_ids, attempts, data, file>>

\* End of the loop body: the graph is dropped, the next profile is taken.
RunNextProfile ==
    /\ pc = "next"
    /\ events' = Append(events, Event(idx, "discarded", G))
    /\ idx' = idx + 1
    /\ pc' = "loop"
    /\ UNCHANGED <<profiles, G, shared_G, combined_G, perm, perm_G>>
    /\ UNCHANGED <<script, n_ids, attempts, report, data, file>>

\* The joint graph: create_combined_network in Final/main.py,
\* find_shared_connections in the other two.
RunJoint ==
    /\ pc = "loop"
    /\ idx > Len(profiles)
    /\ IF script = "Final/main.py"
       THEN /\ combined_G' = create_combined_network(profiles)
            /\ events' = Append(events, Event(0, "built", combined_G'))
            /\ UNCHANGED shared_G
       ELSE /\ shared_G' = find_shared_connections(profiles)
            /\ events' = Append(events, Event(0, "built", shared_G'))
            /\ UNCHANGED combined_G
    /\ pc' = "joint_render"
    /\ UNCHANGED <<profiles, idx, G, perm, perm_G>>
    /\ UNCHANGED <<script, n_ids, attempts, report, data, file>>

JointGraph == IF script = "Final/main.py" THEN combined_G ELSE shared_G

\* visualize_shared_network / visualize_combined_network: G is only read.
RunJointRender ==
    /\ pc = "joint_render"
    /\ events' = Append(events, Event(0, "rendered", JointGraph))
    /\ pc' = "print"
    /\ UNCHANGED <<profiles, idx, G, shared_G, combined_G, perm, perm_G>>
    /\ UNCHANGED <<script, n_ids, attempts, report, data, file>>

\* print_shared_connections(G), the last statement that uses the graph.
RunPrint ==
    /\ pc = "print"
    /\ LET printed == IF script = "Final/main.py"
                      THEN print_shared_connections_combined(combined_G)
                      ELSE print_shared_connections(shared_G)
       IN  IF printed = "ok"
           THEN /\ events' = log_steps(events, 0, <<"printed", "discarded">>, JointGraph)
                /\ pc' = "finished"
           ELSE /\ events' = Append(events, Event(0, "printed", JointGraph))
                /\ pc' = "aborted_print"
    /\ UNCHANGED <<profiles, idx, G, shared_G, combined_G, perm, perm_G>>
    /\ UNCHANGED <<script, n_ids, attempts, report, data, file>>

----------------------------------------------------------------------------
\* src/S_NIT.py

\* The columns of the data frame, after the index column.
NitColumns == <<"Interests", "Citations", "H-Index", "i10-Index", "Coauthors">>

\* One pass of "for url in professor_urls".  get_professor_basic_data has no
\* handler: its exception ends the script.  scrape_google_scholar_profile
\* catches its own and returns empty values; the professor is recorded anyway.
NitProcess ==
    /\ pc = "fetch"
    /\ script = "S_NIT.py"
    /\ Len(attempts) < n_ids
    /\ \E basic_ok, scrape_ok \in BOOLEAN : \E name \in RunNames :
          IF ~basic_ok
          THEN /\ attempts' = Append(attempts, "failed")
               /\ pc' = "aborted_fetch"
               /\ UNCHANGED data
          ELSE /\ attempts' = Append(attempts, IF scrape_ok THEN "ok" ELSE "scrape_failed")
               /\ data' = dict_set(data, name, [scraped |-> scrape_ok])
               /\ UNCHANGED pc
    /\ UNCHANGED <<profiles, idx, G, shared_G, combined_G, perm, perm_G>>
    /\ UNCHANGED <<script, n_ids, events, report, file>>

\* pd.DataFrame.from_dict(professor_data, orient="index").to_csv(...): an
\* empty dictionary gives a frame without columns.
NitWrite ==
    /\ pc = "fetch"
    /\ script = "S_NIT.py"
    /\ Len(attempts) = n_ids
    /\ file' = [written |-> TRUE,
                header  |-> IF data.keys = <<>> THEN <<"">> ELSE <<"">> \o NitColumns,
                rows    |-> data.keys]
    /\ pc' = "finished"
    /\ UNCHANGED <<profiles, idx, G, shared_G, combined_G, perm, perm_G>>
    /\ UNCHANGED <<script, n_ids, attempts, events, report, data>>

----------------------------------------------------------------------------
\* src/main.py

\* fieldnames of the DictWriter.
CsvHeader == <<"ID", "Name", "Affiliation", "Citations", "H-Index", "i10-Index">>

\* Variant: a failed id still contributes a row.
fetch_citation_step_blank(rows, scholar_id, ok) ==
    Append(rows, [ID |-> scholar_id])

\* Body of "for scholar_id in scholar_ids": the row is appended at the end of
\* the try block; the handler only prints.  Of the row the ID is kept.
fetch_citation_step(rows, scholar_id, ok) ==
    IF ok THEN Append(rows, [ID |-> scholar_id]) ELSE rows

\* One scholar id of fetch_citation_data; the id is its position in the list.
CsvFetch ==
    /\ pc = "fetch"
    /\ script = "main.py"
    /\ Len(attempts) < n_ids
    /\ \E ok \in BOOLEAN :
          /\ data' = fetch_citation_step(data, Len(attempts) + 1, ok)
          /\ attempts' = Append(attempts, IF ok THEN "ok" ELSE "failed")
    /\ UNCHANGED <<profiles, pc, idx, G, shared_G, combined_G, perm, perm_G>>
    /\ UNCHANGED <<script, n_ids, events, report, file>>

\* writer.writeheader(); writer.writerows(data)
CsvWrite ==
    /\ pc = "fetch"
    /\ script = "main.py"
    /\ Len(attempts) = n_ids
    /\ file' = [written |-> TRUE, header |-> CsvHeader, rows |-> data]
    /\ pc' = "finished"
    /\ UNCHANGED <<profiles, idx, G, shared_G, combined_G, perm, perm_G>>
    /\ UNCHANGED <<script, n_ids, attempts, events, report, data>>

RunNext ==
    \/ RunFetch
    \/ RunFetchDone
    \/ RunSkip
    \/ RunBuild
    \/ RunRender
    \/ RunStats
    \/ RunNextProfile
    \/ RunJoint
    \/ RunJointRender
    \/ RunPrint
    \/ NitProcess
    \/ NitWrite
    \/ CsvFetch
    \/ CsvWrite

RunSpec == RunInit /\ [][RunNext]_vars

----------------------------------------------------------------------------
\* Vocabulary of the properties

\* The profile the last create_individual_network call was given.
LastProfile == profiles[idx - 1]

IndividualBuilt == idx > 1

SharedBuilt == pc \in {"combined", "rerun", "done"}

CombinedBuilt == pc \in {"rerun", "done"}

RerunBuilt == pc = "done"

Present == {k \in 1..Len(profiles) : profiles[k].some}

\* The names of the professors of the input.
InputProfessors == {profiles[k].name : k \in Present}

\* The coauthor names of a profile, as a set.
CoauthorNamesOf(p) == Range(p.coauthors)

\* The coauthors of a profile in the glossary's sense: the names of its list
\* other than the professor's own.
OtherCoauthorsOf(p) == Range(p.coauthors) \ {p.name}

\* The last record of the input that carries the name n.
LastRecord(n) ==
    profiles[CHOOSE k \in Present :
                /\ profiles[k].name = n
                /\ \A j \in Present : profiles[j].name = n => j <= k]

\* The coauthor-name set of professor n: that of the last record carrying n.
CoauthorSet(n) == CoauthorNamesOf(LastRecord(n))

SelfLoops(g) == {e \in g.edges : Cardinality(e) = 1}

KindNodes(g, kind) == {n \in g.nodes : g.node_type[n] = kind}

\* weight of an edge as the readers take it: G[u][v].get('weight', 1)
WeightOf(g, e) == IF g.attr[e].has_weight THEN g.attr[e].weight ELSE 1

\* The edges of g that join two different professors of the input.
ProfessorEdges(g) == {e \in g.edges : e \subseteq InputProfessors /\ Cardinality(e) = 2}

\* Same nodes with the same kinds, same edges, same weight and the same
\* shared_coauthors content on every edge.
SameGraph(g, h) ==
    /\ g.nodes = h.nodes
    /\ g.node_type = h.node_type
    /\ g.edges = h.edges
    /\ \A e \in g.edges \cap h.edges :
          /\ g.attr[e].has_weight = h.attr[e].has_weight
          /\ g.attr[e].weight = h.attr[e].weight
          /\ g.attr[e].has_shared = h.attr[e].has_shared
          /\ Range(g.attr[e].shared) = Range(h.attr[e].shared)

\* Records that carry the same professor name carry the same coauthor names.
NoConflictingDuplicates ==
    \A j, k \in Present :
        profiles[j].name = profiles[k].name =>
            CoauthorNamesOf(profiles[j]) = CoauthorNamesOf(profiles[k])

----------------------------------------------------------------------------
\* C1

\* C1: for a profile that is not None, create_individual_network returns a
\* graph whose only professor node is the profile's name, whose coauthor
\* nodes are exactly the distinct coauthors of the list, and whose edges are
\* exactly one professor-coauthor edge per coauthor; for any list, repeated
\* names and the professor's own name included.
C1_IndividualNetworkShape ==
    (IndividualBuilt /\ LastProfile.some) =>
        /\ ~G.is_none
        /\ G.nodes = {LastProfile.name} \cup OtherCoauthorsOf(LastProfile)
        /\ KindNodes(G, "professor") = {LastProfile.name}
        /\ KindNodes(G, "coauthor") = OtherCoauthorsOf(LastProfile)
        /\ G.edges = {{LastProfile.name, c} : c \in OtherCoauthorsOf(LastProfile)}

----------------------------------------------------------------------------
\* C2

\* C2 as stated: for a missing profile the builder returns an empty graph, a
\* graph value with zero nodes and zero edges.
C2_EmptyGraphForMissing ==
    (IndividualBuilt /\ ~LastProfile.some) =>
        (~G.is_none /\ G.nodes = {} /\ G.edges = {})

\* C2 as amended: for a missing profile create_individual_network returns
\* None, no graph value at all, and signals no error.
C2_NoneForMissing ==
    (IndividualBuilt /\ ~LastProfile.some) => G = NoneGraph

C2_Witness == IndividualBuilt /\ ~LastProfile.some /\ G.is_none

----------------------------------------------------------------------------
\* C3

\* C3: for a profile whose coauthor list is empty create_individual_network
\* yields a graph with exactly one node, the professor, and no edge.
C3_EmptyCoauthorList ==
    (IndividualBuilt /\ LastProfile.some /\ LastProfile.coauthors = <<>>) =>
        /\ ~G.is_none
        /\ G.nodes = {LastProfile.name}
        /\ G.node_type[LastProfile.name] = "professor"
        /\ G.edges = {}

C3_Witness ==
    /\ IndividualBuilt /\ LastProfile.some /\ LastProfile.coauthors = <<>>
    /\ Cardinality(G.nodes) = 1

----------------------------------------------------------------------------
\* C4

\* C4: in the graph find_shared_connections returns, any two distinct
\* professors whose coauthor-name sets intersect are joined by an edge whose
\* weight is the size of the intersection and whose shared_coauthors holds
\* exactly the names of the intersection.  (The graph holds at most one edge
\* per pair of nodes by construction.)
C4_SharedEdgeWeight ==
    SharedBuilt =>
        \A p, q \in InputProfessors :
            (p # q /\ CoauthorSet(p) \cap CoauthorSet(q) # {}) =>
                /\ {p, q} \in shared_G.edges
                /\ shared_G.attr[{p, q}].has_weight
                /\ shared_G.attr[{p, q}].weight =
                       Cardinality(CoauthorSet(p) \cap CoauthorSet(q))
                /\ shared_G.attr[{p, q}].has_shared
                /\ Range(shared_G.attr[{p, q}].shared) =
                       CoauthorSet(p) \cap CoauthorSet(q)
                /\ Len(shared_G.attr[{p, q}].shared) =
                       Cardinality(CoauthorSet(p) \cap CoauthorSet(q))

\* Two professors share two coauthors and a third professor shares one with
\* each of them.
C4_Witness ==
    /\ SharedBuilt
    /\ Cardinality(InputProfessors) = 3
    /\ \E p, q \in InputProfessors :
          /\ p # q
          /\ Cardinality(CoauthorSet(p) \cap CoauthorSet(q)) = 2
          /\ shared_G.attr[{p, q}].weight = 2
    /\ \E p, q \in InputProfessors :
          /\ p # q
          /\ Cardinality(CoauthorSet(p) \cap CoauthorSet(q)) = 1
          /\ {p, q} \in shared_G.edges

----------------------------------------------------------------------------
\* C5

\* C5: in the graph find_shared_connections returns, every shared_coauthor
\* node is adjacent to exactly the professors whose coauthor sets contain
\* its name, and these are at least two nodes of kind professor.
C5_SharedCoauthorAdjacency ==
    SharedBuilt =>
        \A n \in KindNodes(shared_G, "shared_coauthor") :
            /\ neighbors(shared_G, n) \cap InputProfessors =
                   {p \in InputProfessors : n \in CoauthorSet(p)}
            /\ Cardinality(neighbors(shared_G, n) \cap
                           KindNodes(shared_G, "professor")) >= 2

----------------------------------------------------------------------------
\* C6

\* C6: in every graph a builder returns, the name of an input professor is a
\* node of kind professor, whether or not the name also occurs in coauthor
\* lists.  (A name is one node by construction: nodes are keyed by name.)
C6_ProfessorWins ==
    /\ (IndividualBuilt /\ LastProfile.some) =>
           /\ LastProfile.name \in G.nodes
           /\ G.node_type[LastProfile.name] = "professor"
    /\ SharedBuilt =>
           \A p \in InputProfessors :
               p \in shared_G.nodes /\ shared_G.node_type[p] = "professor"
    /\ CombinedBuilt =>
           \A p \in InputProfessors :
               p \in combined_G.nodes /\ combined_G.node_type[p] = "professor"

----------------------------------------------------------------------------
\* C7

\* C7: no graph a builder returns holds a self-loop.
C7_NoSelfLoops ==
    /\ IndividualBuilt => SelfLoops(G) = {}
    /\ SharedBuilt => SelfLoops(shared_G) = {}
    /\ CombinedBuilt => SelfLoops(combined_G) = {}

----------------------------------------------------------------------------
\* C8

\* C8 as stated: find_shared_connections gives the same graph for every
\* reordering of every list of profile records.
C8_PermutationInvariance ==
    RerunBuilt => SameGraph(shared_G, perm_G)

\* C8 as amended: find_shared_connections gives the same graph for every
\* reordering of a list in which records of the same professor name carry
\* the same coauthor names.
C8_PermutationInvarianceDistinct ==
    (RerunBuilt /\ NoConflictingDuplicates) => SameGraph(shared_G, perm_G)

\* Three professors, really reordered, with a weighted edge in the result.
C8_Witness ==
    /\ RerunBuilt
    /\ NoConflictingDuplicates
    /\ Cardinality(InputProfessors) = 3
    /\ perm # Identity(Len(profiles))
    /\ \E e \in perm_G.edges : perm_G.attr[e].has_weight

----------------------------------------------------------------------------
\* C9

\* C9: in the graph find_shared_connections returns, a professor whose
\* coauthor set is empty is a node of kind professor with no edge.
C9_EmptySetIsolated ==
    SharedBuilt =>
        \A p \in InputProfessors :
            CoauthorSet(p) = {} =>
                /\ p \in shared_G.nodes
                /\ shared_G.node_type[p] = "professor"
                /\ degree(shared_G, p) = 0

----------------------------------------------------------------------------
\* C10

\* C10: create_combined_network and find_shared_connections give the same
\* professor-professor edges with the same weight on each of them.
C10_SameProfessorEdges ==
    CombinedBuilt =>
        /\ ProfessorEdges(combined_G) = ProfessorEdges(shared_G)
        /\ \A e \in ProfessorEdges(combined_G) \cap ProfessorEdges(shared_G) :
              WeightOf(combined_G, e) = WeightOf(shared_G, e)

----------------------------------------------------------------------------
\* C11

\* No coauthor name of the input is a professor's name.
NoProfessorAsCoauthor ==
    \A k \in Present : CoauthorNamesOf(profiles[k]) \cap InputProfessors = {}

\* The professors and the shared coauthors of the combined graph.
CombinedCore ==
    {n \in combined_G.nodes :
        combined_G.node_type[n] \in {"professor", "shared_coauthor"}}

\* C11 as stated: the graph of create_combined_network has the same node set
\* and the same edge set as the graph of find_shared_connections.
C11_SameNodesAndEdges ==
    CombinedBuilt =>
        /\ combined_G.nodes = shared_G.nodes
        /\ combined_G.edges = shared_G.edges

\* C11 as amended: every node of the shared graph is a node of the combined
\* graph and every edge of the shared graph that does not join two professors
\* is an edge of the combined graph; when no coauthor name is a professor's
\* name and same-name records carry the same coauthor names, the shared graph
\* is exactly the combined graph cut down to its professors and shared
\* coauthors.
C11_SharedWithinCombined ==
    CombinedBuilt =>
        /\ shared_G.nodes \subseteq combined_G.nodes
        /\ \A e \in shared_G.edges :
              e \in combined_G.edges \/ e \subseteq InputProfessors
        /\ (NoProfessorAsCoauthor /\ NoConflictingDuplicates) =>
              /\ shared_G.nodes = CombinedCore
              /\ shared_G.edges = {e \in combined_G.edges : e \subseteq CombinedCore}
              /\ \A n \in CombinedCore :
                    shared_G.node_type[n] = combined_G.node_type[n]

\* The combined graph has a node the shared graph lacks and both have a
\* shared coauthor.
C11_Witness ==
    /\ CombinedBuilt
    /\ NoConflictingDuplicates
    /\ combined_G.nodes \ shared_G.nodes # {}
    /\ KindNodes(shared_G, "shared_coauthor") # {}

----------------------------------------------------------------------------
\* C12

\* C12: in the graph of create_combined_network every edge that carries a
\* shared_coauthors list has a weight equal to the length of that list.
C12_WeightIsCount ==
    CombinedBuilt =>
        \A e \in combined_G.edges :
            combined_G.attr[e].has_shared =>
                /\ combined_G.attr[e].has_weight
                /\ combined_G.attr[e].weight = Len(combined_G.attr[e].shared)

----------------------------------------------------------------------------
\* C13

\* C13: after create_combined_network every node that is not a professor has
\* kind shared_coauthor if it is adjacent to at least two professor nodes and
\* kind coauthor otherwise.  (A name is one node by construction.)
C13_SharedIffTwoProfessors ==
    CombinedBuilt =>
        \A n \in combined_G.nodes :
            combined_G.node_type[n] # "professor" =>
                LET profs == neighbors(combined_G, n) \cap
                                 KindNodes(combined_G, "professor")
                IN  combined_G.node_type[n] =
                        (IF Cardinality(profs) >= 2 THEN "shared_coauthor"
                                                    ELSE "coauthor")

\* A coauthor of exactly two professors beside a coauthor of one.
C13_Witness ==
    /\ CombinedBuilt
    /\ \E n \in KindNodes(combined_G, "shared_coauthor") :
          Cardinality(neighbors(combined_G, n) \cap
                      KindNodes(combined_G, "professor")) = 2
    /\ KindNodes(combined_G, "coauthor") # {}

----------------------------------------------------------------------------
\* C16

\* C16: in an individual network of N >= 2 nodes the professor has degree
\* N - 1 and no node has a degree above N - 1, a self-loop counting twice.
C16_DegreeWithinRange ==
    (IndividualBuilt /\ LastProfile.some /\ Cardinality(G.nodes) >= 2) =>
        /\ degree(G, LastProfile.name) = Cardinality(G.nodes) - 1
        /\ \A n \in G.nodes : degree(G, n) <= Cardinality(G.nodes) - 1

----------------------------------------------------------------------------
\* C19

\* C19: in the graph of find_shared_connections every edge between two nodes
\* of kind professor carries shared_coauthors and weight, so
\* print_shared_connections does not fail on it.
C19_ProfessorEdgesCarryShared ==
    SharedBuilt =>
        /\ \A e \in shared_G.edges :
              (\A n \in e : shared_G.node_type[n] = "professor") =>
                  shared_G.attr[e].has_shared /\ shared_G.attr[e].has_weight
        /\ print_shared_connections(shared_G) = "ok"

\* An edge between two professor nodes in a graph in which another
\* professor's name was shared as a coauthor.
C19_Witness ==
    /\ SharedBuilt
    /\ \E e \in shared_G.edges :
          Cardinality(e) = 2 /\ \A n \in e : shared_G.node_type[n] = "professor"
    /\ InputProfessors \cap KindNodes(shared_G, "shared_coauthor") # {}

----------------------------------------------------------------------------
\* C20

\* The names carried by more than one record of the input.
RepeatedProfessors ==
    {n \in InputProfessors :
        \E j, k \in Present : j # k /\ profiles[j].name = n /\ profiles[k].name = n}

\* The names professor p shares with another professor, by the last records.
SharedWith(p) ==
    UNION {CoauthorSet(p) \cap CoauthorSet(q) : q \in InputProfessors \ {p}}

\* The nodes and edges the last record of every professor accounts for.
LastRecordNodes == InputProfessors \cup UNION {SharedWith(p) : p \in InputProfessors}

LastRecordEdges ==
    {e \in SUBSET Names :
        \/ \E p \in InputProfessors : \E q \in InputProfessors \ {p} :
              e = {p, q} /\ CoauthorSet(p) \cap CoauthorSet(q) # {}
        \/ \E p \in InputProfessors : \E c \in SharedWith(p) : e = {p, c}}

\* What of C20 does not concern the node kind: one node per repeated name,
\* and no node or edge but those the last records account for.
LastRecordOnly ==
    (SharedBuilt /\ RepeatedProfessors # {}) =>
        /\ RepeatedProfessors \subseteq shared_G.nodes
        /\ shared_G.nodes = LastRecordNodes
        /\ shared_G.edges = LastRecordEdges

\* C20: when two records carry the same professor name, the graph of
\* find_shared_connections has one professor node for the name and only the
\* later record's coauthors are used: the earlier record adds no node or edge.
C20_LastRecordWins ==
    /\ LastRecordOnly
    /\ SharedBuilt =>
          \A n \in RepeatedProfessors :
              n \in shared_G.nodes /\ shared_G.node_type[n] = "professor"

----------------------------------------------------------------------------
\* Vocabulary of the properties of a run

Finished == pc = "finished"

\* The positions of the fetches that succeeded, in order.
OkIds ==
    LET IsOk(k) == attempts[k] = "ok"
    IN  SelectSeq([k \in 1..Len(attempts) |-> k], IsOk)

\* The graphs that have a log entry, and the steps logged for one of them.
LoggedGraphs == {events[i].graph : i \in 1..Len(events)}

StepsOf(k) ==
    LET OfGraph(e) == e.graph = k
        es == SelectSeq(events, OfGraph)
    IN  [i \in 1..Len(es) |-> es[i].step]

IsPrefix(s, t) == Len(s) <= Len(t) /\ \A i \in 1..Len(s) : s[i] = t[i]

\* Every step logged for a graph left it as it was built.
UnchangedSinceBuilt ==
    \A i, j \in 1..Len(events) :
        events[i].graph = events[j].graph => events[i].g = events[j].g

----------------------------------------------------------------------------
\* C14

\* C14: in every fetching script a fetch that fails makes its profile absent
\* (no graph, no statistics, no row for it), the remaining profiles are still
\* fetched, and the failure never ends the run.
C14_FailedFetchSkipped ==
    /\ pc # "aborted_fetch"
    /\ Finished => Len(attempts) = n_ids
    /\ script \in GraphScripts =>
          \A k \in 1..Len(attempts) :
              attempts[k] # "ok" => k \notin LoggedGraphs
    /\ script = "main.py" =>
          \A k \in 1..Len(attempts) :
              attempts[k] # "ok" => \A i \in 1..Len(data) : data[i].ID # k
    /\ script = "S_NIT.py" => Len(data.keys) <= Len(OkIds)

----------------------------------------------------------------------------
\* C15

\* C15: when the eigenvector computation does not converge,
\* analyze_network_statistics reports 0 for every node of the graph, warns
\* and returns; the failure never leaves the caller, in any script.  (The
\* report is compared with the graph right after the call, at "next".)
C15_NonConvergenceHandled ==
    /\ pc # "aborted_stats"
    /\ (pc = "next" /\ report.called /\ ~report.converged) =>
          /\ ~report.raised
          /\ report.warning
          /\ report.eigenvector = "zeros"
          /\ report.nodes = G.nodes

----------------------------------------------------------------------------
\* C17

\* C17: fetch_citation_data writes the file with the fixed header and one row
\* per scholar id whose fetch succeeded, in input order; a failed id gives no
\* row and does not stop the later ids, and the file is written even when
\* every fetch fails.
C17_HeaderAndOkRows ==
    script = "main.py" =>
        /\ data = [i \in 1..Len(OkIds) |-> [ID |-> OkIds[i]]]
        /\ Finished => file.written
        /\ file.written =>
              /\ Len(attempts) = n_ids
              /\ file.header = CsvHeader
              /\ file.rows = [i \in 1..Len(OkIds) |-> [ID |-> OkIds[i]]]

\* The file written after a failed fetch followed by a successful one.
C17_Witness ==
    /\ script = "main.py"
    /\ file.written
    /\ \E j, k \in 1..Len(attempts) :
          j < k /\ attempts[j] = "failed" /\ attempts[k] = "ok"

----------------------------------------------------------------------------
\* C18

\* The steps a graph of the run goes through, in order.
ExpectedSteps(k) ==
    IF k = 0 THEN <<"built", "rendered", "printed", "discarded">>
    ELSE IF script = "Final/1.py"
         THEN <<"built", "rendered", "stats", "rendered", "discarded">>
    ELSE IF script = "N.py"
         THEN <<"built", "rendered", "stats", "discarded">>
    ELSE <<"built", "rendered", "discarded">>

\* C18 as stated: every graph is built, then queried for statistics, then
\* handed to the rendering adapter, then discarded, and no step from the
\* statistics on changes the graph.
C18_BuiltStatsRenderedDiscarded ==
    /\ \A k \in LoggedGraphs :
          IsPrefix(StepsOf(k), <<"built", "stats", "rendered", "discarded">>)
    /\ UnchangedSinceBuilt

\* C18 as amended: every individual graph is built, then rendered, then (in
\* Final/1.py and N.py) queried for statistics, Final/1.py rendering it once
\* more inside that step, then discarded; the joint graph is built, rendered,
\* printed and discarded; no step after the building changes the graph.
C18_BuiltRenderedStatsDiscarded ==
    /\ \A k \in LoggedGraphs : IsPrefix(StepsOf(k), ExpectedSteps(k))
    /\ Finished =>
          \A k \in LoggedGraphs : StepsOf(k) = ExpectedSteps(k)
    /\ UnchangedSinceBuilt

\* A finished run of Final/1.py that analysed a graph with an edge and built
\* a joint graph with an edge.
C18_Witness ==
    /\ Finished
    /\ script = "Final/1.py"
    /\ report.called
    /\ \E i \in 1..Len(events) :
          events[i].graph # 0 /\ events[i].step = "stats" /\ events[i].g.edges # {}
    /\ shared_G.edges # {}

====
